---- MODULE Spec2Model ----
(***************************************************************************)
(* Model of src/input/history.rs: the bounded, deduplicating line history  *)
(* (LineHistory), its owner (InputHistory) and the per-use cursor          *)
(* (InputHistoryRef) with its three-state position (HistoryPos).           *)
(*                                                                         *)
(* Strings are sequences of characters.  Option<T> is a record             *)
(* [some, v]; HistoryPos is a record [tag, s, pos] whose unused payload    *)
(* fields hold a fixed default.  VecDeque index i (0-based) is sequence    *)
(* index i + 1.                                                            *)
(***************************************************************************)
EXTENDS Integers, Sequences, FiniteSets, TLC

(* ---------------------------- bounds ----------------------------------- *)

\* largest max_history handed to InputHistory::new
MaxCap == 3
\* longest input string a cursor holds
MaxLen == 3
\* largest magnitude of HistoryPos::Pos the cursor is driven to
MaxPos == 9
\* modelled width of isize, in bits
IsizeBits == 6

\* the characters typed; the store compares whole strings only, and one
\* character already gives MaxLen + 1 distinct strings, "" included
Chars == {"a"}

Strings == UNION {[1..n -> Chars] : n \in 0..MaxLen}

RECURSIVE Pow2(_)
Pow2(n) == IF n = 0 THEN 1 ELSE 2 * Pow2(n - 1)

ISIZE_MIN == 0 - Pow2(IsizeBits - 1)
ISIZE_MAX == Pow2(IsizeBits - 1) - 1

(* ---------------------------- values ----------------------------------- *)

None == [some |-> FALSE, v |-> <<>>]
Some(x) == [some |-> TRUE, v |-> x]

\* enum HistoryPos
Nothing == [tag |-> "Nothing", s |-> <<>>, pos |-> 0]
Str(t) == [tag |-> "Str", s |-> t, pos |-> 0]
Pos(p) == [tag |-> "Pos", s |-> <<>>, pos |-> p]

Range(q) == {q[i] : i \in 1..Len(q)}

(* ---------------------------- LineHistory ------------------------------ *)

\* self.lines.iter().position(|org_s| org_s == new_s); 0 stands for None,
\* i > 0 for Some(i - 1)
find_pos(ls, new_s) ==
  IF \E i \in 1..Len(ls) : ls[i] = new_s
  THEN CHOOSE i \in 1..Len(ls) : ls[i] = new_s /\ \A j \in 1..(i - 1) : ls[j] # new_s
  ELSE 0

\* VecDeque::remove(pos)
remove(ls, i) == SubSeq(ls, 1, i - 1) \o SubSeq(ls, i + 1, Len(ls))

\* a plausible slip: the duplicate scan is left out
add_NoDedup(ls, cap, new_s) ==
  IF cap = 0 THEN ls
  ELSE IF Len(ls) = cap THEN Append(Tail(ls), new_s) ELSE Append(ls, new_s)

\* a plausible slip: the capacity test is left out
add_NoEvict(ls, cap, new_s) ==
  IF cap = 0 THEN ls
  ELSE IF find_pos(ls, new_s) # 0
       THEN Append(remove(ls, find_pos(ls, new_s)), new_s)
       ELSE Append(ls, new_s)

\* a plausible slip: the capacity test runs before the duplicate scan
add_EvictFirst(ls, cap, new_s) ==
  IF cap = 0 THEN ls
  ELSE LET l1 == IF Len(ls) = cap THEN Tail(ls) ELSE ls
       IN IF find_pos(l1, new_s) # 0
          THEN Append(remove(l1, find_pos(l1, new_s)), new_s)
          ELSE Append(l1, new_s)

\* a plausible slip: pop_back instead of pop_front
add_EvictNewest(ls, cap, new_s) ==
  IF cap = 0 THEN ls
  ELSE IF find_pos(ls, new_s) # 0
       THEN Append(remove(ls, find_pos(ls, new_s)), new_s)
       ELSE IF Len(ls) = cap
            THEN Append(SubSeq(ls, 1, Len(ls) - 1), new_s)
            ELSE Append(ls, new_s)

\* LineHistory::add; in a release build the zero-capacity call returns
\* at once
add(ls, cap, new_s) ==
  IF cap = 0 THEN ls
  ELSE IF find_pos(ls, new_s) # 0
       THEN Append(remove(ls, find_pos(ls, new_s)), new_s)
       ELSE IF Len(ls) = cap
            THEN Append(Tail(ls), new_s)
            ELSE Append(ls, new_s)

\* a plausible slip: wrapping_abs, whose result for isize::MIN the cast to
\* usize turns into 2^(w-1)
checked_abs_Wrapping(pos) ==
  IF pos = ISIZE_MIN THEN 0 - ISIZE_MIN ELSE IF pos < 0 THEN 0 - pos ELSE pos

\* pos.checked_abs().unwrap_or(0): isize::MIN has no absolute value
checked_abs_or_0(pos) ==
  IF pos = ISIZE_MIN THEN 0 ELSE IF pos < 0 THEN 0 - pos ELSE pos

\* a plausible slip: the backward branch indexes from the front
get_BackwardFromFront(ls, pos) ==
  LET len == Len(ls) IN
  IF len = 0 \/ pos = 0 THEN None
  ELSE IF pos < 0
       THEN LET p == checked_abs_or_0(pos) % (len + 1)
            IN IF p = 0 THEN None ELSE Some(ls[p])
       ELSE LET p == pos % (len + 1)
            IN IF p = 0 THEN None ELSE Some(ls[p])

\* a plausible slip: the forward branch indexes from the tail
get_ForwardFromTail(ls, pos) ==
  LET len == Len(ls) IN
  IF len = 0 \/ pos = 0 THEN None
  ELSE IF pos < 0
       THEN LET p == checked_abs_or_0(pos) % (len + 1)
            IN IF p = 0 THEN None ELSE Some(ls[len - p + 1])
       ELSE LET p == pos % (len + 1)
            IN IF p = 0 THEN None ELSE Some(ls[len - p + 1])

\* LineHistory::get
get(ls, pos) ==
  LET len == Len(ls) IN
  IF len = 0 \/ pos = 0 THEN None
  ELSE IF pos < 0
       THEN LET p == checked_abs_or_0(pos) % (len + 1)
            IN IF p = 0 THEN None ELSE Some(ls[p])
       ELSE LET p == pos % (len + 1)
            IN IF p = 0 THEN None ELSE Some(ls[len - p + 1])

(* ---------------------------- InputHistoryRef -------------------------- *)

\* InputHistoryRef::set_current: the new value of self.current
set_current_val(cur) == IF cur.some THEN Str(cur.v) ELSE Nothing

\* InputHistoryRef::push_char: the new value of self.current
push_char_val(cur, c) ==
  IF cur.tag = "Str" THEN Str(Append(cur.s, c)) ELSE Str(<<c>>)

\* String::pop
pop(t) == IF Len(t) = 0 THEN t ELSE SubSeq(t, 1, Len(t) - 1)

\* InputHistoryRef::as_ref
as_ref(cur, ls) ==
  IF cur.tag = "Nothing" THEN None
  ELSE IF cur.tag = "Str" THEN Some(cur.s)
  ELSE get(ls, cur.pos)

\* a plausible slip: browsing backward from nothing starts on the blank slot
prev_pos_FromZero(tmp) ==
  IF tmp.tag = "Nothing" THEN Pos(0)
  ELSE IF tmp.tag = "Str" THEN Pos(2)
  ELSE Pos(tmp.pos + 1)

\* a plausible slip: the slot just committed is not skipped
prev_pos_NoSkip(tmp) ==
  IF tmp.tag = "Nothing" THEN Pos(1)
  ELSE IF tmp.tag = "Str" THEN Pos(1)
  ELSE Pos(tmp.pos + 1)

\* a plausible slip: the step while browsing goes the wrong way
prev_pos_StepBack(tmp) ==
  IF tmp.tag = "Nothing" THEN Pos(1)
  ELSE IF tmp.tag = "Str" THEN Pos(2)
  ELSE Pos(tmp.pos - 1)

\* InputHistoryRef::move_to_prev: the match on the old self.current
prev_pos(tmp) ==
  IF tmp.tag = "Nothing" THEN Pos(1)
  ELSE IF tmp.tag = "Str" THEN Pos(2)
  ELSE Pos(tmp.pos + 1)

\* a plausible slip: forward from an edit starts on the oldest entry
next_pos_NoBlank(tmp) ==
  IF tmp.tag = "Nothing" THEN Pos(0 - 1)
  ELSE IF tmp.tag = "Str" THEN Pos(0 - 1)
  ELSE Pos(tmp.pos - 1)

\* a plausible slip: position 0 is stepped over
next_pos_SkipsZero(tmp) ==
  IF tmp.tag = "Nothing" THEN Pos(0 - 1)
  ELSE IF tmp.tag = "Str" THEN Pos(0)
  ELSE IF tmp.pos = 1 THEN Pos(0 - 1)
  ELSE Pos(tmp.pos - 1)

\* InputHistoryRef::move_to_next: the match on the old self.current
next_pos(tmp) ==
  IF tmp.tag = "Nothing" THEN Pos(0 - 1)
  ELSE IF tmp.tag = "Str" THEN Pos(0)
  ELSE Pos(tmp.pos - 1)

(* ---------------------------- state ------------------------------------ *)

VARIABLES
  lines,        \* LineHistory.lines, oldest first
  max_history,  \* LineHistory.max_history
  alive,        \* an InputHistoryRef exists
  current,      \* InputHistoryRef.current
  no_history,   \* InputHistoryRef.no_history
  op,           \* the operation that ran last
  ret,          \* what it returned (None for the operations returning ())
  added,        \* the call of LineHistory::add made by it, if any
  run,          \* the run of consecutive moves the cursor is in
  was,          \* self.current as that operation found it
  earlier       \* the operation before it: its name and, for a move or
                \* a clear, what it found

vars == <<lines, max_history, alive, current, no_history, op, ret, added, run,
          was, earlier>>

NoAdd == [called |-> FALSE, arg |-> <<>>, before |-> <<>>]
Added(s, ls) == [called |-> TRUE, arg |-> s, before |-> ls]

\* kind: "prevE"/"nextE" a run of moves that began in Nothing,
\*       "prevS"/"nextS" a run that began in Str(t); k: moves made so far;
\* base: the store as the first move of the run left it
NoRun == [kind |-> "none", k |-> 0, t |-> <<>>, base |-> <<>>]

\* what every operation leaves behind for the next one to look back on
Hist ==
  /\ was' = current
  /\ earlier' = [op |-> op,
                 was |-> IF op \in {"move_to_prev", "move_to_next", "clear"}
                         THEN was ELSE Nothing]

NoEarlier == [op |-> "none", was |-> Nothing]

\* InputHistory::new(max_history), no cursor made yet
Init ==
  /\ max_history \in 0..MaxCap
  /\ lines = <<>>
  /\ alive = FALSE
  /\ current = Nothing
  /\ no_history = FALSE
  /\ op = "new"
  /\ ret = None
  /\ added = NoAdd
  /\ run = NoRun
  /\ was = Nothing
  /\ earlier = NoEarlier

\* a plausible slip: the cursor does not learn that the store keeps nothing
make_ref_NoFlag ==
  /\ ~alive
  /\ Hist
  /\ \E init_query \in {None} \cup {Some(t) : t \in Strings} :
       current' = set_current_val(init_query)
  /\ alive' = TRUE
  /\ no_history' = FALSE
  /\ op' = "make_ref"
  /\ ret' = None
  /\ added' = NoAdd
  /\ run' = NoRun
  /\ UNCHANGED <<lines, max_history>>

\* InputHistory::make_ref(init_query)
make_ref ==
  /\ ~alive
  /\ Hist
  /\ \E init_query \in {None} \cup {Some(t) : t \in Strings} :
       current' = set_current_val(init_query)
  /\ alive' = TRUE
  /\ no_history' = (max_history = 0)
  /\ op' = "make_ref"
  /\ ret' = None
  /\ added' = NoAdd
  /\ run' = NoRun
  /\ UNCHANGED <<lines, max_history>>

\* a plausible slip: the text being replaced is committed, not discarded
set_current_Commits ==
  /\ alive
  /\ Hist
  /\ \E cur \in {None} \cup {Some(t) : t \in Strings} :
       current' = set_current_val(cur)
  /\ op' = "set_current"
  /\ ret' = None
  /\ IF current.tag = "Str" /\ ~no_history
     THEN /\ added' = Added(current.s, lines)
          /\ lines' = add(lines, max_history, current.s)
     ELSE /\ added' = NoAdd
          /\ lines' = lines
  /\ run' = NoRun
  /\ UNCHANGED <<max_history, alive, no_history>>

\* InputHistoryRef::set_current(current)
set_current ==
  /\ alive
  /\ Hist
  /\ \E cur \in {None} \cup {Some(t) : t \in Strings} :
       current' = set_current_val(cur)
  /\ op' = "set_current"
  /\ ret' = None
  /\ added' = NoAdd
  /\ run' = NoRun
  /\ UNCHANGED <<lines, max_history, alive, no_history>>

\* a plausible slip: typing while browsing commits the browsed entry, as
\* clear does
push_char_Commits ==
  /\ alive
  /\ Hist
  /\ current.tag = "Str" => Len(current.s) < MaxLen
  /\ \E c \in Chars :
       /\ current' = push_char_val(current, c)
       /\ ret' = Some(current'.s)
  /\ op' = "push_char"
  /\ IF current.tag = "Pos" /\ get(lines, current.pos).some
     THEN /\ added' = Added(get(lines, current.pos).v, lines)
          /\ lines' = add(lines, max_history, get(lines, current.pos).v)
     ELSE /\ added' = NoAdd
          /\ lines' = lines
  /\ run' = NoRun
  /\ UNCHANGED <<max_history, alive, no_history>>

\* InputHistoryRef::push_char(c)
push_char ==
  /\ alive
  /\ Hist
  /\ current.tag = "Str" => Len(current.s) < MaxLen
  /\ \E c \in Chars :
       /\ current' = push_char_val(current, c)
       /\ ret' = Some(current'.s)
  /\ op' = "push_char"
  /\ added' = NoAdd
  /\ run' = NoRun
  /\ UNCHANGED <<lines, max_history, alive, no_history>>

\* a plausible slip: backspace while browsing starts an edit of the browsed
\* entry, as a shell does
pop_char_EditsBrowsed ==
  /\ alive
  /\ Hist
  /\ IF current.tag = "Str"
     THEN /\ current' = Str(pop(current.s))
          /\ ret' = Some(current'.s)
     ELSE IF current.tag = "Pos" /\ get(lines, current.pos).some
     THEN /\ current' = Str(pop(get(lines, current.pos).v))
          /\ ret' = Some(current'.s)
     ELSE /\ current' = current
          /\ ret' = None
  /\ op' = "pop_char"
  /\ added' = NoAdd
  /\ run' = NoRun
  /\ UNCHANGED <<lines, max_history, alive, no_history>>

\* InputHistoryRef::pop_char()
pop_char ==
  /\ alive
  /\ Hist
  /\ IF current.tag = "Str"
     THEN /\ current' = Str(pop(current.s))
          /\ ret' = Some(current'.s)
     ELSE /\ current' = current
          /\ ret' = None
  /\ op' = "pop_char"
  /\ added' = NoAdd
  /\ run' = NoRun
  /\ UNCHANGED <<lines, max_history, alive, no_history>>

\* a plausible slip: the text being edited is dropped, not committed
ClearStore_NoCommit ==
  IF no_history \/ current.tag = "Nothing" \/ current.tag = "Str"
  THEN /\ added' = NoAdd
       /\ lines' = lines
  ELSE IF get(lines, current.pos).some
  THEN /\ added' = Added(get(lines, current.pos).v, lines)
       /\ lines' = add(lines, max_history, get(lines, current.pos).v)
  ELSE /\ added' = NoAdd
       /\ lines' = lines

\* a plausible slip: the browsed entry is not committed
ClearStore_NoRepromote ==
  IF no_history \/ current.tag = "Nothing" \/ current.tag = "Pos"
  THEN /\ added' = NoAdd
       /\ lines' = lines
  ELSE /\ added' = Added(current.s, lines)
       /\ lines' = add(lines, max_history, current.s)

\* a plausible slip: the early return on no_history is missing
ClearStore_IgnoresFlag ==
  IF current.tag = "Nothing"
  THEN /\ added' = NoAdd
       /\ lines' = lines
  ELSE IF current.tag = "Str"
  THEN /\ added' = Added(current.s, lines)
       /\ lines' = add(lines, max_history, current.s)
  ELSE IF get(lines, current.pos).some
  THEN /\ added' = Added(get(lines, current.pos).v, lines)
       /\ lines' = add(lines, max_history, get(lines, current.pos).v)
  ELSE /\ added' = NoAdd
       /\ lines' = lines

\* the body of InputHistoryRef::clear: what it does to the store
ClearStore ==
  IF no_history \/ current.tag = "Nothing"
  THEN /\ added' = NoAdd
       /\ lines' = lines
  ELSE IF current.tag = "Str"
  THEN /\ added' = Added(current.s, lines)
       /\ lines' = add(lines, max_history, current.s)
  ELSE IF get(lines, current.pos).some
  THEN /\ added' = Added(get(lines, current.pos).v, lines)
       /\ lines' = add(lines, max_history, get(lines, current.pos).v)
  ELSE /\ added' = NoAdd
       /\ lines' = lines

\* a plausible slip: self.current is read but not taken
clear_KeepsCurrent ==
  /\ alive
  /\ Hist
  /\ ClearStore
  /\ current' = current
  /\ op' = "clear"
  /\ ret' = None
  /\ run' = NoRun
  /\ UNCHANGED <<max_history, alive, no_history>>

\* InputHistoryRef::clear()
clear ==
  /\ alive
  /\ Hist
  /\ ClearStore
  /\ current' = Nothing
  /\ op' = "clear"
  /\ ret' = None
  /\ run' = NoRun
  /\ UNCHANGED <<max_history, alive, no_history>>

\* Drop for InputHistoryRef: clear(), then the cursor is gone
drop ==
  /\ alive
  /\ Hist
  /\ ClearStore
  /\ current' = Nothing
  /\ alive' = FALSE
  /\ no_history' = FALSE
  /\ op' = "drop"
  /\ ret' = None
  /\ run' = NoRun
  /\ UNCHANGED max_history

\* the run a move continues or begins; mine names the two kinds of run of
\* the move's own direction
NextRun(mine, ls) ==
  IF current.tag = "Nothing"
  THEN [kind |-> mine[1], k |-> 1, t |-> <<>>, base |-> ls]
  ELSE IF current.tag = "Str"
  THEN [kind |-> mine[2], k |-> 1, t |-> current.s, base |-> ls]
  ELSE IF run.kind \in {mine[1], mine[2]}
  THEN [run EXCEPT !.k = run.k + 1]
  ELSE NoRun

\* InputHistoryRef::move_to_prev()
move_to_prev ==
  /\ alive
  /\ Hist
  /\ op' = "move_to_prev"
  /\ IF no_history
     THEN /\ ret' = as_ref(current, lines)
          /\ added' = NoAdd
          /\ run' = NoRun
          /\ UNCHANGED <<lines, current>>
     ELSE /\ current.tag = "Pos" => current.pos < MaxPos
          /\ IF current.tag = "Str"
             THEN /\ lines' = add(lines, max_history, current.s)
                  /\ added' = Added(current.s, lines)
             ELSE /\ lines' = lines
                  /\ added' = NoAdd
          /\ current' = prev_pos(current)
          /\ ret' = as_ref(current', lines')
          /\ run' = NextRun(<<"prevE", "prevS">>, lines')
  /\ UNCHANGED <<max_history, alive, no_history>>

\* InputHistoryRef::move_to_next()
move_to_next ==
  /\ alive
  /\ Hist
  /\ op' = "move_to_next"
  /\ IF no_history
     THEN /\ ret' = as_ref(current, lines)
          /\ added' = NoAdd
          /\ run' = NoRun
          /\ UNCHANGED <<lines, current>>
     ELSE /\ current.tag = "Pos" => current.pos > 0 - MaxPos
          /\ IF current.tag = "Str"
             THEN /\ lines' = add(lines, max_history, current.s)
                  /\ added' = Added(current.s, lines)
             ELSE /\ lines' = lines
                  /\ added' = NoAdd
          /\ current' = next_pos(current)
          /\ ret' = as_ref(current', lines')
          /\ run' = NextRun(<<"nextE", "nextS">>, lines')
  /\ UNCHANGED <<max_history, alive, no_history>>

\* InputHistoryRef::as_ref(), called by the owner of the cursor
peek ==
  /\ alive
  /\ Hist
  /\ ret' = as_ref(current, lines)
  /\ op' = "as_ref"
  /\ added' = NoAdd
  /\ run' = NoRun
  /\ UNCHANGED <<lines, max_history, alive, current, no_history>>

Next ==
  \/ make_ref
  \/ set_current
  \/ push_char
  \/ pop_char
  \/ clear
  \/ drop
  \/ move_to_prev
  \/ move_to_next
  \/ peek

Spec == Init /\ [][Next]_vars

\* the sequences of at most n distinct strings
UniqueSeqs(n) ==
  {q \in UNION {[1..k -> Strings] : k \in 0..n} :
     \A i, j \in 1..Len(q) : i # j => q[i] # q[j]}

\* LineHistory::get on its own: any store the program can build, looked up
\* at any offset an isize holds
InitGet ==
  /\ max_history \in 1..MaxCap
  /\ lines \in UniqueSeqs(max_history)
  /\ alive = TRUE
  /\ current \in {Pos(p) : p \in ISIZE_MIN..ISIZE_MAX}
  /\ no_history = FALSE
  /\ op = "new"
  /\ ret = None
  /\ added = NoAdd
  /\ run = NoRun
  /\ was = Nothing
  /\ earlier = NoEarlier

NextGet == peek

SpecGet == InitGet /\ [][NextGet]_vars

TypeOK ==
  /\ max_history \in 0..MaxCap
  /\ \A i \in 1..Len(lines) : lines[i] \in Strings
  /\ alive \in BOOLEAN
  /\ no_history \in BOOLEAN
  /\ current.tag \in {"Nothing", "Str", "Pos"}
  /\ current.s \in Strings
  /\ current.pos \in (0 - MaxPos)..MaxPos
  /\ MaxPos <= ISIZE_MAX


(* ---------------------------- properties ------------------------------- *)

Last(q) == q[Len(q)]
Without(q, x) == SelectSeq(q, LAMBDA e : e # x)
Reverse(q) == [i \in 1..Len(q) |-> q[Len(q) + 1 - i]]
Somes(q) == [i \in 1..Len(q) |-> Some(q[i])]
\* the k-th element of the endless repetition of the non-empty sequence c
Cyclic(c, k) == c[((k - 1) % Len(c)) + 1]

\* C1: after every operation the number of stored entries is at most the
\* capacity given at construction.
CapacityBound == Len(lines) <= max_history

\* a commit of a new text into a full store of the largest capacity, made
\* by the drop of a cursor
CapacityBoundWitness ==
  /\ op = "drop"
  /\ added.called
  /\ max_history = MaxCap
  /\ Len(added.before) = max_history
  /\ added.arg \notin Range(added.before)
  /\ Len(lines) = max_history

\* C2: in every reachable state no two entries of the store are equal.
Uniqueness ==
  \A i, j \in 1..Len(lines) : i # j => lines[i] # lines[j]

\* a commit of a text equal to an entry of a full store
UniquenessWitness ==
  /\ added.called
  /\ max_history >= 2
  /\ Len(added.before) = max_history
  /\ added.arg \in Range(added.before)
  /\ op \in {"move_to_prev", "move_to_next"}

\* C3: adding a text equal to an existing entry moves that entry to the
\* tail, keeps the number of entries, evicts nothing and keeps the relative
\* order of the other entries.
Promotion ==
  (added.called /\ max_history > 0 /\ added.arg \in Range(added.before)) =>
    /\ Len(lines) = Len(added.before)
    /\ Last(lines) = added.arg
    /\ Range(lines) = Range(added.before)
    /\ Without(lines, added.arg) = Without(added.before, added.arg)

\* the oldest of three entries of a full store is promoted
PromotionWitness ==
  /\ added.called
  /\ Len(added.before) = 3
  /\ max_history = 3
  /\ added.before[1] = added.arg
  /\ lines # added.before

\* C4: adding a text not present in a full store removes exactly the entry
\* at index 0 and appends the text; the other entries keep their order.
EvictionOrder ==
  (added.called /\ max_history > 0 /\ added.arg \notin Range(added.before)
     /\ Len(added.before) = max_history) =>
    /\ Len(lines) = Len(added.before)
    /\ Last(lines) = added.arg
    /\ \A i \in 1..(Len(lines) - 1) : lines[i] = added.before[i + 1]
    /\ added.before[1] \notin Range(lines)

\* a new text pushes the oldest of at least three entries out
EvictionOrderWitness ==
  /\ added.called
  /\ max_history >= 3
  /\ Len(added.before) = max_history
  /\ added.arg \notin Range(added.before)
  /\ op = "clear"

\* C5 as stated: after any completed operation the cursor is never in
\* Navigating with position 0.
NavZeroNeverAtRest ==
  ~(alive /\ current.tag = "Pos" /\ current.pos = 0)

\* C5 amended: the cursor comes to rest in Navigating(0) only by
\* move_to_next from Editing or from Navigating(1), or by move_to_prev
\* from Navigating(-1), stays there only across pop_char and as_ref, and
\* the operation that leaves it there returns none.
NavZeroOnlyBlank ==
  [][(alive' /\ current'.tag = "Pos" /\ current'.pos = 0) =>
       /\ ret' = None
       /\ \/ op' = "move_to_next" /\ current.tag = "Str"
          \/ op' = "move_to_next" /\ current = Pos(1)
          \/ op' = "move_to_prev" /\ current = Pos(0 - 1)
          \/ op' = "pop_char" /\ current = Pos(0)
          \/ op' = "as_ref" /\ current = Pos(0)]_vars

\* the cursor rests in Navigating(0) after move_to_next committed an edit
NavZeroWitness ==
  /\ alive
  /\ current = Pos(0)
  /\ op = "move_to_next"
  /\ added.called
  /\ Len(lines) >= 2

\* C6: from Empty over a non-empty store e1..en, the k-th consecutive
\* move_to_prev returns en, ..., e1, none, en, ... (period n + 1), and the
\* store is not modified.
CyclicBackward ==
  (run.kind = "prevE" /\ Len(run.base) > 0) =>
    /\ lines = run.base
    /\ ret = Cyclic(Reverse(Somes(run.base)) \o <<None>>, run.k)

\* the second period over at least two entries is complete
CyclicBackwardWitness ==
  /\ run.kind = "prevE"
  /\ Len(run.base) >= 2
  /\ run.k = 2 * (Len(run.base) + 1)
  /\ ret = None

\* C7: from Empty over a non-empty store e1..en, the k-th consecutive
\* move_to_next returns e1, ..., en, none, e1, ... (period n + 1).
ForwardSymmetry ==
  (run.kind = "nextE" /\ Len(run.base) > 0) =>
    ret = Cyclic(Somes(run.base) \o <<None>>, run.k)

\* the second period over at least two entries has begun
ForwardSymmetryWitness ==
  /\ run.kind = "nextE"
  /\ Len(run.base) >= 2
  /\ run.k = Len(run.base) + 2
  /\ ret = Some(run.base[1])

\* C8 as stated: move_to_prev from Editing(d) returns the entry that was
\* second-most-recent in the store before d was committed.
CommitThenPrevSecondBefore ==
  (run.kind = "prevS" /\ run.k = 1 /\ Len(added.before) >= 2) =>
    ret = Some(added.before[Len(added.before) - 1])

\* C8 amended: move_to_prev from Editing(d) commits d and returns the
\* entry that is second-most-recent in the store after the commit (the
\* newest entry other than d), none when d is then the only entry.
CommitThenPrev ==
  (run.kind = "prevS" /\ run.k = 1) =>
    /\ added.called /\ added.arg = run.t
    /\ Last(lines) = run.t
    /\ ret = IF Len(lines) >= 2 THEN Some(lines[Len(lines) - 1]) ELSE None
    /\ ret # Some(run.t)

\* a new text is committed over at least two entries and an entry comes
\* back
CommitThenPrevWitness ==
  /\ run.kind = "prevS"
  /\ run.k = 1
  /\ Len(added.before) >= 2
  /\ run.t \notin Range(added.before)
  /\ ret.some

\* C9: from Editing(t) the first move_to_prev never returns t; with n the
\* store length after the commit, consecutive calls return the n - 1 other
\* entries newest to oldest, then none, then t, with period n + 1.
PrevFromEdit ==
  run.kind = "prevS" =>
    /\ lines = run.base
    /\ run.k = 1 => ret # Some(run.t)
    /\ ret = Cyclic(Reverse(Somes(SubSeq(run.base, 1, Len(run.base) - 1)))
                      \o <<None, Some(run.t)>>, run.k)

\* the committed text comes back for the second time
PrevFromEditWitness ==
  /\ run.kind = "prevS"
  /\ Len(run.base) >= 2
  /\ run.k = 2 * (Len(run.base) + 1)
  /\ ret = Some(run.t)

\* C10: from Editing(t), move_to_next commits t as the tail entry and
\* returns none; the following calls return the entries oldest to newest
\* ending with t, then none again.
NextFromEdit ==
  run.kind = "nextS" =>
    /\ lines = run.base
    /\ Last(run.base) = run.t
    /\ run.k = 1 => (added.called /\ added.arg = run.t /\ ret = None)
    /\ ret = Cyclic(<<None>> \o Somes(run.base), run.k)

\* the committed text is reached as the newest entry, after the others
NextFromEditWitness ==
  /\ run.kind = "nextS"
  /\ Len(run.base) >= 2
  /\ run.k = Len(run.base) + 1
  /\ ret = Some(run.t)


\* the store after a commit of t, in the words of the promotion and
\* eviction rules
Committed(ls, t) ==
  IF t \in Range(ls) THEN Append(Without(ls, t), t)
  ELSE IF Len(ls) = max_history THEN Append(Tail(ls), t)
  ELSE Append(ls, t)

Disposals == {"clear", "drop"}
Moves == {"move_to_prev", "move_to_next"}

\* C11: with capacity > 0, clear or drop of a cursor in Editing(t) leaves
\* the store equal to the store with t committed (t at the tail) and the
\* cursor Empty; clear or drop of a cursor in Empty leaves the store as it
\* was.
DisposalCommits ==
  [][(op' \in Disposals /\ max_history > 0) =>
       /\ current.tag = "Str" =>
            (lines' = Committed(lines, current.s) /\ Last(lines') = current.s)
       /\ current.tag = "Nothing" => lines' = lines
       /\ current.tag \in {"Str", "Nothing"} => current' = Nothing]_vars

\* a text shortened to the empty string by pop_char is committed by drop
DisposalCommitsWitness ==
  /\ op = "drop"
  /\ earlier.op = "pop_char"
  /\ was = Str(<<>>)
  /\ added.called
  /\ Len(lines) >= 2
  /\ Last(lines) = <<>>

\* C12: with capacity > 0 the first clear of a cursor in Editing(x) makes
\* one add of x and leaves the cursor Empty; a further clear, or the drop
\* that follows, makes no add and leaves the store unchanged.
DisposalOnce ==
  [][(op' \in Disposals /\ max_history > 0) =>
       /\ current.tag = "Str" =>
            (added'.called /\ added'.arg = current.s /\ current' = Nothing)
       /\ op = "clear" => (~added'.called /\ lines' = lines)]_vars

\* a drop right after the clear that committed the edited text
DisposalOnceWitness ==
  /\ op = "drop"
  /\ earlier.op = "clear"
  /\ earlier.was.tag = "Str"
  /\ max_history > 0
  /\ ~added.called
  /\ Last(lines) = earlier.was.s

\* C13: with capacity > 0, clear or drop of a cursor in Navigating(p) moves
\* the entry get(p) resolves to to the tail, keeping length and set of
\* entries; if get(p) is none the store is unchanged; the cursor ends Empty.
DisposalRepromotes ==
  [][(op' \in Disposals /\ max_history > 0 /\ current.tag = "Pos") =>
       /\ current' = Nothing
       /\ IF get(lines, current.pos).some
          THEN /\ Last(lines') = get(lines, current.pos).v
               /\ lines' = Append(Without(lines, get(lines, current.pos).v),
                                  get(lines, current.pos).v)
               /\ Len(lines') = Len(lines)
               /\ Range(lines') = Range(lines)
          ELSE lines' = lines]_vars

\* clear while browsing an entry that is not the newest of three
DisposalRepromotesWitness ==
  /\ op = "clear"
  /\ was.tag = "Pos"
  /\ added.called
  /\ Len(lines) = 3
  /\ lines # added.before

\* C14: over a store of capacity 0 the store stays empty, the cursor never
\* enters Navigating, and move_to_prev and move_to_next leave the cursor
\* state unchanged and return the cursor's own text (none when Empty).
ZeroCapacity ==
  /\ [](max_history = 0 => (lines = <<>> /\ current.tag # "Pos"))
  /\ [][(max_history = 0 /\ op' \in Moves) =>
          /\ current' = current
          /\ ret' = IF current.tag = "Str" THEN Some(current.s) ELSE None]_vars

\* a move over a zero-capacity store returns the typed text
ZeroCapacityWitness ==
  /\ max_history = 0
  /\ op = "move_to_prev"
  /\ was.tag = "Str"
  /\ Len(was.s) > 0
  /\ current = was
  /\ ret = Some(was.s)

\* C15: from Navigating(p) resolving to an entry, push_char(c) leaves the
\* cursor in Editing of the one-character text c and the store unchanged.
EditDiscardsNavigation ==
  [][(op' = "push_char" /\ current.tag = "Pos"
        /\ get(lines, current.pos).some) =>
       /\ \E c \in Chars : current' = Str(<<c>>) /\ ret' = Some(<<c>>)
       /\ lines' = lines]_vars

\* a character typed while browsing an entry that is not the newest
EditDiscardsNavigationWitness ==
  /\ op = "push_char"
  /\ was.tag = "Pos"
  /\ Len(lines) >= 2
  /\ get(lines, was.pos).some
  /\ get(lines, was.pos).v # Last(lines)
  /\ current.tag = "Str"

\* C16: pop_char in Navigating(p) or Empty returns none and leaves cursor
\* state and store unchanged; in Editing(t) it drops the last character and
\* stays in Editing, also when the text becomes empty.
BackspaceNoOp ==
  [][op' = "pop_char" =>
       /\ lines' = lines
       /\ IF current.tag = "Str"
          THEN /\ current'.tag = "Str"
               /\ current'.s = SubSeq(current.s, 1, Len(current.s) - 1)
               /\ ret' = Some(current'.s)
          ELSE /\ current' = current
               /\ ret' = None]_vars

\* backspace while browsing a non-empty entry
BackspaceNoOpWitness ==
  /\ op = "pop_char"
  /\ was.tag = "Pos"
  /\ current = was
  /\ get(lines, current.pos).some
  /\ Len(get(lines, current.pos).v) > 0
  /\ ret = None

\* the lookup the cyclic reading of an offset prescribes: residue 0 of
\* pos mod (n + 1) is not found, residue r is entries[n - r]
CyclicLookup(ls, pos) ==
  LET n == Len(ls)
      r == pos % (n + 1)
  IN IF r = 0 THEN None ELSE Some(ls[n - r + 1])

\* C17 as stated: for a non-empty store and every offset an isize holds,
\* the most negative one included, get is the cyclic lookup.
GetCyclic ==
  (op = "as_ref" /\ current.tag = "Pos" /\ Len(lines) > 0) =>
    ret = CyclicLookup(lines, current.pos)

\* C17 amended: for a non-empty store and every offset but the most
\* negative one get is the cyclic lookup; at the most negative offset get
\* is not found; the lookup does not modify the store.
GetCyclicExceptMin ==
  /\ []((op = "as_ref" /\ current.tag = "Pos" /\ Len(lines) > 0) =>
          ret = IF current.pos = ISIZE_MIN THEN None
                ELSE CyclicLookup(lines, current.pos))
  /\ [][op' = "as_ref" => lines' = lines]_vars

\* a lookup far on the negative side that finds an entry
GetCyclicWitness ==
  /\ op = "as_ref"
  /\ current.tag = "Pos"
  /\ current.pos < 0 - MaxPos
  /\ current.pos # ISIZE_MIN
  /\ Len(lines) >= 2
  /\ ret.some

\* C18: LineHistory::add is never reached with max_history = 0.
AddNeverAtZero == added.called => max_history > 0

\* a typed text is dropped over a zero-capacity store, and no add is made
AddNeverAtZeroWitness ==
  /\ max_history = 0
  /\ op = "drop"
  /\ was.tag = "Str"
  /\ ~added.called

\* C19: the store is modified only by a move made in Editing and by clear
\* or drop made in Editing or in a resolving Navigating state; no operation
\* makes the store shorter.
StoreChangesOnlyOnCommit ==
  [][/\ lines' # lines =>
          \/ op' \in Moves /\ current.tag = "Str"
          \/ op' \in Disposals /\ current.tag = "Str"
          \/ op' \in Disposals /\ current.tag = "Pos"
               /\ get(lines, current.pos).some
     /\ Len(lines') >= Len(lines)]_vars

\* set_current replaces a text the store does not hold, and the store
\* still does not hold it
StoreChangesOnlyOnCommitWitness ==
  /\ op = "set_current"
  /\ was.tag = "Str"
  /\ Len(lines) >= 1
  /\ was.s \notin Range(lines)
  /\ ~added.called

\* C20: with capacity > 0, a move_to_prev and a move_to_next made one after
\* the other, in either order, from Navigating(p) restore p and the value
\* peek returns; made from Editing(t) they return t.
MovesInverse ==
  (max_history > 0 /\ op \in Moves /\ earlier.op \in Moves /\ op # earlier.op) =>
    /\ earlier.was.tag = "Pos" =>
         (current = earlier.was /\ ret = get(lines, earlier.was.pos))
    /\ earlier.was.tag = "Str" => ret = Some(earlier.was.s)

\* from the newest entry forward onto the blank slot and back
MovesInverseWitness ==
  /\ max_history > 0
  /\ op = "move_to_prev"
  /\ earlier.op = "move_to_next"
  /\ earlier.was = Pos(1)
  /\ current = Pos(1)
  /\ ret.some

====
